---- MODULE Spec2Model ----
(***************************************************************************)
(* Monophonic sine synthesizer (hollance/synth-recipes).                   *)
(*                                                                         *)
(* State machine of SynthAudioProcessor (juce/Source/PluginProcessor.cpp): *)
(* the voice fields, prepareToPlay, and processBlock with its sample       *)
(* accurate splitting of a block at MIDI event offsets.                    *)
(* The output guard protectYourEars and a single note-on are also run on   *)
(* their own, over wider inputs, and so is the command line program        *)
(* (cli/main.cpp) that writes a sine to output.wav.                        *)
(*                                                                         *)
(* Numbers.  The C++ doubles and floats are modelled in fixed point, each  *)
(* quantity in a unit in which the values the model draws are computed     *)
(* without rounding by the IEEE-754 arithmetic of the code:                *)
(*   phase, inc     quarter turns (TWO_PI = 4 units); k * TWO_PI / 4 is an *)
(*                  exact double for k in 0..8                             *)
(*   env, envSlope  1 / EnvOne                                             *)
(*   amplitude      1 / AmpDen   (velocity / 127.0 * 0.5 = velocity / 254) *)
(*   samples        1 / (AmpDen * EnvOne)                                  *)
(*   frequency      Hz, sampleRate Hz                                      *)
(* A value is a record [k, v]: k = "fin" with the integer v, k = "inf"     *)
(* with the sign v, or k = "nan".                                          *)
(* Two more kinds carry the one sample rate that is close to the smallest  *)
(* double, TinyRate = 0x1.0da76b7be62eep-1015 Hz (3.000000151261047e-306): *)
(* k = "tiny" is v / S and k = "huge" is v * S in the unit of the          *)
(* quantity, with S = 1 Hz / TinyRate (3.3e305).  At that rate the         *)
(* increment of note 33 is the double 1.151917248236188e+308, twice it is  *)
(* above DBL_MAX, and std::sin of it is the double 1.0.                    *)
(* A field that nothing has written since the object was constructed holds *)
(* Indeterminate: it stands for every value the memory can hold.  Sums,    *)
(* products and comparisons of it are Indeterminate again, so no outcome   *)
(* is chosen for it; after prepareToPlay the program reads no such field   *)
(* (C13).                                                                  *)
(* std::sin is exact at 0, 1 and 3 quarter turns; at 2 and 4 quarter turns *)
(* the double result (1.2e-16, -2.4e-16) is below the fixed-point unit and *)
(* is taken as 0.  attackTime and releaseTime (0.01f) are taken as 1/100.  *)
(***************************************************************************)
EXTENDS Integers, Sequences, FiniteSets, TLC

VARIABLES
    sampleRate,    \* double sampleRate                 (PluginProcessor.h:54)
    activeNote,    \* int activeNote                    (PluginProcessor.h:55)
    frequency,     \* double frequency                  (PluginProcessor.h:56)
    amplitude,     \* double amplitude                  (PluginProcessor.h:57)
    env,           \* double env                        (PluginProcessor.h:58)
    envSlope,      \* double envSlope                   (PluginProcessor.h:59)
    phase,         \* double phase                      (PluginProcessor.h:65)
    inc,           \* double inc                        (PluginProcessor.h:66)
    numChannels,   \* getTotalNumOutputChannels()
    prepared,      \* prepareToPlay has been called
    pc,            \* position of the audio thread
    buffer,        \* juce::AudioBuffer<float>: buffer[ch][frame + 1]
    midiMessages,  \* juce::MidiBuffer of the current processBlock call
    midiIdx,       \* position of the range-for iterator in midiMessages
    bufferOffset,  \* int bufferOffset of splitBufferByEvents
    spans,         \* history: the render() calls of the current block
    raw,           \* history: the last span as written before the guard
    entry,         \* history: the voice when processBlock was entered
    lengthInSeconds, \* double lengthInSeconds                  (main.cpp:31)
    outputBuffer,  \* int16_t* outputBuffer, filled so far      (main.cpp:77)
    wav            \* what main has written to output.wav

voice == <<sampleRate, activeNote, frequency, amplitude, env, envSlope, phase, inc>>

vars == <<sampleRate, activeNote, frequency, amplitude, env, envSlope, phase, inc,
          numChannels, prepared, pc, buffer, midiMessages, midiIdx,
          bufferOffset, spans, raw, entry, lengthInSeconds, outputBuffer, wav>>

\* the state of the command line program (cli/main.cpp) next to the fields it
\* shares by name with the plug-in: sampleRate, frequency, amplitude, phase, inc
cli == <<lengthInSeconds, outputBuffer, wav>>

----------------------------------------------------------------------------
(* Bounds of the model *)

MaxFrames == 2      \* largest block length buffer.getNumSamples()
MaxEvents == 2      \* largest number of events in one MidiBuffer
MaxSpan == 3        \* largest span handed to the guard on its own

----------------------------------------------------------------------------
(* Program constants, in model units *)

TWO_PI == 4         \* one turn, in quarter turns
EnvOne == 220       \* env level 1.0f
AmpDen == 254       \* amplitude 1.0 (velocity / 127.0 * 0.5)
TimeDen == 100      \* 1 / attackTime = 1 / releaseTime

SampleOne == AmpDen * EnvOne     \* sample value 1.0f
SampleTwo == 2 * SampleOne       \* sample value 2.0f

----------------------------------------------------------------------------
(* IEEE-754 values and arithmetic *)

Fin(n) == [k |-> "fin", v |-> n]
PosInf == [k |-> "inf", v |-> 1]
NegInf == [k |-> "inf", v |-> -1]
NaN == [k |-> "nan", v |-> 0]

\* the value of a field that has no initializer and has not been assigned:
\* any int, or any double (finite, infinite or NaN)
Indeterminate == [k |-> "indeterminate", v |-> 0]

IsIndeterminate(x) == x.k = "indeterminate"

\* n * S and n / S in the unit of the quantity, n # 0 (see Numbers above)
Huge(n) == [k |-> "huge", v |-> n]
Tiny(n) == [k |-> "tiny", v |-> n]

IsNaN(x) == x.k = "nan"
IsInf(x) == x.k = "inf"
IsFin(x) == x.k = "fin"

Sign(n) == IF n > 0 THEN 1 ELSE IF n < 0 THEN -1 ELSE 0

\* the power of S in a finite double: -1, 0 or 1
Rank(x) == CASE x.k = "tiny" -> -1 [] x.k = "fin" -> 0 [] x.k = "huge" -> 1

\* the double n * S^r: S * S is above DBL_MAX and rounds to an infinity,
\* 1 / (S * S) is below the smallest double and rounds to 0
Num(r, n) ==
    IF n = 0 THEN Fin(0)
    ELSE IF r > 1 THEN [k |-> "inf", v |-> Sign(n)]
    ELSE IF r < -1 THEN Fin(0)
    ELSE CASE r = -1 -> Tiny(n) [] r = 0 -> Fin(n) [] r = 1 -> Huge(n)

\* DBL_MAX in the huge unit of the phase (quarter turns * S) and of the
\* envelope (S / EnvOne), rounded down
PhaseHugeMax == 343
EnvHugeMax == 118647

\* the rounding of a result above DBL_MAX to an infinity; max is DBL_MAX in
\* the huge unit of the quantity
Overflow(x, max) ==
    IF x.k = "huge" /\ (x.v > max \/ x.v < -max)
    THEN [k |-> "inf", v |-> Sign(x.v)]
    ELSE x

\* a + b; of two finite doubles of different rank the smaller is below half
\* an ulp of the larger and is rounded away
FAdd(a, b) ==
    IF IsFin(a) /\ IsFin(b) THEN Fin(a.v + b.v)
    ELSE IF IsNaN(a) \/ IsNaN(b) THEN NaN
    ELSE IF IsIndeterminate(a) \/ IsIndeterminate(b) THEN Indeterminate
    ELSE IF IsInf(a) /\ IsInf(b) THEN (IF a.v = b.v THEN a ELSE NaN)
    ELSE IF IsInf(a) THEN a
    ELSE IF IsInf(b) THEN b
    ELSE IF a.v = 0 THEN b
    ELSE IF b.v = 0 THEN a
    ELSE IF Rank(a) > Rank(b) THEN a
    ELSE IF Rank(b) > Rank(a) THEN b
    ELSE Num(Rank(a), a.v + b.v)

\* a * b (the unit of the product is the product of the units)
FMul(a, b) ==
    IF IsFin(a) /\ IsFin(b) THEN Fin(a.v * b.v)
    ELSE IF IsNaN(a) \/ IsNaN(b) THEN NaN
    ELSE IF IsIndeterminate(a) \/ IsIndeterminate(b) THEN Indeterminate
    ELSE IF IsInf(a) \/ IsInf(b)
         THEN (IF Sign(a.v) * Sign(b.v) = 0 THEN NaN
               ELSE [k |-> "inf", v |-> Sign(a.v) * Sign(b.v)])
    ELSE Num(Rank(a) + Rank(b), a.v * b.v)

\* a > b; every comparison with a NaN is false.  The outcome of comparing a
\* field that nothing has written depends on what the memory holds: it is
\* Indeterminate, neither TRUE nor FALSE, and an operator that branches on
\* it gives Indeterminate for what either branch may leave
FGt(a, b) ==
    IF IsFin(a) /\ IsFin(b) THEN a.v > b.v
    ELSE IF IsNaN(a) \/ IsNaN(b) THEN FALSE
    ELSE IF IsIndeterminate(a) \/ IsIndeterminate(b) THEN Indeterminate
    ELSE IF IsInf(a) THEN (a.v = 1 /\ ~(IsInf(b) /\ b.v = 1))
    ELSE IF IsInf(b) THEN b.v = -1
    ELSE IF Sign(a.v) # Sign(b.v) THEN Sign(a.v) > Sign(b.v)
    ELSE IF Rank(a) # Rank(b)
         THEN (IF a.v > 0 THEN Rank(a) > Rank(b) ELSE Rank(a) < Rank(b))
    ELSE a.v > b.v

FLt(a, b) == FGt(b, a)
FGe(a, b) ==
    IF IsFin(a) /\ IsFin(b) THEN a.v >= b.v
    ELSE IF IsNaN(a) \/ IsNaN(b) THEN FALSE
    ELSE IF IsIndeterminate(a) \/ IsIndeterminate(b) THEN Indeterminate
    ELSE ~FGt(b, a)
FLe(a, b) == FGe(b, a)

\* a / b (the unit of the quotient is the quotient of the units); a zero is
\* +0.0, and the model draws only exact quotients
FDiv(a, b) ==
    IF IsNaN(a) \/ IsNaN(b) THEN NaN
    ELSE IF IsIndeterminate(a) \/ IsIndeterminate(b) THEN Indeterminate
    ELSE IF IsInf(a)
         THEN (IF IsInf(b) THEN NaN
               ELSE [k |-> "inf", v |-> IF b.v < 0 THEN -a.v ELSE a.v])
    ELSE IF IsInf(b) THEN Fin(0)
    ELSE IF b.v = 0
         THEN (IF a.v = 0 THEN NaN ELSE [k |-> "inf", v |-> Sign(a.v)])
    ELSE Num(Rank(a) - Rank(b), (a.v * Sign(b.v)) \div (b.v * Sign(b.v)))

\* std::sin at a phase in quarter turns; sin of an infinity is NaN; of the
\* huge phases only 220 * S (one increment of note 33 at TinyRate) is not
\* above DBL_MAX, and std::sin of that double is 1.0; a tiny phase has a
\* sine below the fixed-point unit
Sin(x) ==
    IF IsFin(x)
    THEN Fin(CASE x.v % 4 = 0 -> 0
               [] x.v % 4 = 1 -> 1
               [] x.v % 4 = 2 -> 0
               [] x.v % 4 = 3 -> -1)
    ELSE IF IsIndeterminate(x) THEN Indeterminate
    ELSE IF x.k = "huge" THEN CASE x.v = 220 -> Fin(1) [] x.v = -220 -> Fin(-1)
    ELSE IF x.k = "tiny" THEN Fin(0)
    ELSE NaN

----------------------------------------------------------------------------
(* The voice: the fields of SynthAudioProcessor as one record *)

Voice ==
    [sampleRate |-> sampleRate, activeNote |-> activeNote,
     frequency |-> frequency, amplitude |-> amplitude,
     env |-> env, envSlope |-> envSlope, phase |-> phase, inc |-> inc]

\* 440.0 * std::exp2(double(note - 69) / 12.0), for notes a whole number of
\* octaves from note 69 down to note 33 (an integer number of Hz)
Frequency(note) ==
    LET octaves == (note - 69) \div 12
    IN  IF octaves >= 0 THEN 440 * 2^octaves ELSE 440 \div 2^(-octaves)

\* 1.0 / (sampleRate * attackTime), in units of 1 / EnvOne
AttackSlope(sr) == Overflow(FDiv(Fin(TimeDen * EnvOne), sr), EnvHugeMax)

\* a slip in the slope below: the release takes twice the time
ReleaseSlopeSlow(sr) ==
    Overflow(FDiv(Fin(-(TimeDen * EnvOne)), FMul(sr, Fin(2))), EnvHugeMax)

\* -1.0 / (sampleRate * releaseTime), in units of 1 / EnvOne
ReleaseSlope(sr) == Overflow(FDiv(Fin(-(TimeDen * EnvOne)), sr), EnvHugeMax)

\* startSound: inc = frequency * TWO_PI / sampleRate
StartSound(s) ==
    [s EXCEPT !.inc = Overflow(FDiv(FMul(s.frequency, Fin(TWO_PI)), s.sampleRate),
                               PhaseHugeMax)]

\* a slip in noteOn below: the oscillator and the envelope restart
NoteOnRestart(s, note, velocity) ==
    StartSound([s EXCEPT !.activeNote = note,
                         !.amplitude = Fin(velocity),
                         !.frequency = Fin(Frequency(note)),
                         !.envSlope = AttackSlope(s.sampleRate),
                         !.phase = Fin(0),
                         !.env = Fin(0)])

\* a slip in noteOn below: a held note keeps its amplitude (legato)
NoteOnLegato(s, note, velocity) ==
    StartSound([s EXCEPT !.activeNote = note,
                         !.amplitude = IF s.activeNote > 0 THEN s.amplitude
                                       ELSE Fin(velocity),
                         !.frequency = Fin(Frequency(note)),
                         !.envSlope = AttackSlope(s.sampleRate)])

\* noteOn(note, velocity)
NoteOn(s, note, velocity) ==
    StartSound([s EXCEPT !.activeNote = note,
                         !.amplitude = Fin(velocity),
                         !.frequency = Fin(Frequency(note)),
                         !.envSlope = AttackSlope(s.sampleRate)])

\* a slip in noteOff below: the note number is not compared
NoteOffAny(s, note) ==
    [s EXCEPT !.activeNote = 0, !.envSlope = ReleaseSlope(s.sampleRate)]

\* noteOff(note)
NoteOff(s, note) ==
    IF s.activeNote = note
    THEN [s EXCEPT !.activeNote = 0, !.envSlope = ReleaseSlope(s.sampleRate)]
    ELSE s

\* data0 & 0xF0
StatusNibble(data0) == (data0 \div 16) * 16

\* a slip in handleMIDI below: velocity 0 is not told from a note-on
HandleMIDIAnyVelocity(s, data0, data1, data2) ==
    CASE StatusNibble(data0) = 128 -> NoteOff(s, data1)
      [] StatusNibble(data0) = 144 -> NoteOn(s, data1, data2)
      [] OTHER -> s

\* handleMIDI(data0, data1, data2)
HandleMIDI(s, data0, data1, data2) ==
    CASE StatusNibble(data0) = 128 -> NoteOff(s, data1)
      [] StatusNibble(data0) = 144 ->
            IF data2 > 0 THEN NoteOn(s, data1, data2) ELSE NoteOff(s, data1)
      [] OTHER -> s

\* the byte arguments splitBufferByEvents passes for an event of at most 3 bytes
Data1(metadata) == IF metadata.numBytes >= 2 THEN metadata.data[2] ELSE 0
Data2(metadata) == IF metadata.numBytes = 3 THEN metadata.data[3] ELSE 0

\* a slip in the test below: the length of the event is not looked at
ApplyEventAnyLength(s, metadata) ==
    HandleMIDI(s, metadata.data[1], Data1(metadata), Data2(metadata))

\* the voice after splitBufferByEvents has dealt with one event
ApplyEvent(s, metadata) ==
    IF metadata.numBytes <= 3
    THEN HandleMIDI(s, metadata.data[1], Data1(metadata), Data2(metadata))
    ELSE s

\* a slip in the wrap below: the phase wraps only above two turns
WrapPhaseLate(p) ==
    IF IsIndeterminate(p) THEN Indeterminate
    ELSE IF FGt(p, Fin(2 * TWO_PI)) THEN FAdd(p, Fin(-TWO_PI)) ELSE p

\* processSample: the output (in units of 1 / AmpDen) and the voice after it
WrapPhase(p) ==
    IF IsIndeterminate(p) THEN Indeterminate
    ELSE IF FGt(p, Fin(TWO_PI)) THEN FAdd(p, Fin(-TWO_PI)) ELSE p

ProcessSample(s) ==
    [out |-> FMul(s.amplitude, Sin(s.phase)),
     s |-> [s EXCEPT !.phase =
                WrapPhase(Overflow(FAdd(s.phase, s.inc), PhaseHugeMax))]]

\* a slip in the clamp below: the level is not clamped
ClampEnvNone(e) == e

\* the clamp of env after env += envSlope
ClampEnv(e) ==
    IF IsIndeterminate(e) THEN Indeterminate
    ELSE IF FGe(e, Fin(EnvOne)) THEN Fin(EnvOne)
    ELSE IF FLe(e, Fin(0)) THEN Fin(0)
    ELSE e

\* a slip in the test below: an idle voice is ticked too
SoundingAlways(s) == s.activeNote >= 0 \/ FGt(s.env, Fin(0))

\* the test that guards the body of the render loop
Sounding(s) == s.activeNote > 0 \/ FGt(s.env, Fin(0))

\* one iteration of the render loop: the sample written (in sample units,
\* static_cast<float> keeps every value of the model) and the voice after it
RenderSample(s) ==
    IF Sounding(s)
    THEN LET ps == ProcessSample(s)
             e == ClampEnv(FAdd(s.env, s.envSlope))
         IN  [out |-> FMul(ps.out, e), s |-> [ps.s EXCEPT !.env = e]]
    ELSE [out |-> Fin(0), s |-> s]

\* the render loop over sampleCount frames: the samples written, in order,
\* and the voice after the last of them
RECURSIVE RenderLoop(_, _)
RenderLoop(s, sampleCount) ==
    IF sampleCount = 0 THEN [out |-> <<>>, s |-> s]
    ELSE LET r == RenderSample(s)
             rest == RenderLoop(r.s, sampleCount - 1)
         IN  [out |-> <<r.out>> \o rest.out, s |-> rest.s]

----------------------------------------------------------------------------
(* The output guard *)

\* a slip in the test below: a magnitude of exactly 2.0f silences too
SilencesFromTwo(x) ==
    IsNaN(x) \/ IsInf(x) \/ FLe(x, Fin(-SampleTwo)) \/ FGe(x, Fin(SampleTwo))

\* x is NaN, infinite, or x < -2.0f || x > 2.0f
Silences(x) ==
    IsNaN(x) \/ IsInf(x) \/ FLt(x, Fin(-SampleTwo)) \/ FGt(x, Fin(SampleTwo))

\* a slip in the clamp below: a sample above 1.0f is left as it is
ClampSampleLow(x) ==
    IF IsIndeterminate(x) THEN Indeterminate
    ELSE IF FLt(x, Fin(-SampleOne)) THEN Fin(-SampleOne) ELSE x

\* the value stored for a sample that does not silence the span
ClampSample(x) ==
    IF IsIndeterminate(x) THEN Indeterminate
    ELSE IF FLt(x, Fin(-SampleOne)) THEN Fin(-SampleOne)
    ELSE IF FGt(x, Fin(SampleOne)) THEN Fin(SampleOne)
    ELSE x

Zeros(n) == [i \in 1..n |-> Fin(0)]

\* a slip in the scan below: the scan stops after the first clamp
RECURSIVE GuardScanStopsAtClamp(_, _)
GuardScanStopsAtClamp(buf, i) ==
    IF i > Len(buf) THEN buf
    ELSE IF Silences(buf[i]) THEN Zeros(Len(buf))
    ELSE IF ClampSample(buf[i]) # buf[i]
         THEN [buf EXCEPT ![i] = ClampSample(buf[i])]
         ELSE GuardScanStopsAtClamp(buf, i + 1)

\* the scan of protectYourEars from index i on (1-based); a sample computed
\* from a field that nothing has written may silence the span or not, so the
\* span it leaves is indeterminate
RECURSIVE GuardScan(_, _)
GuardScan(buf, i) ==
    IF i > Len(buf) THEN buf
    ELSE IF IsIndeterminate(buf[i]) THEN [j \in 1..Len(buf) |-> Indeterminate]
    ELSE IF Silences(buf[i]) THEN Zeros(Len(buf))
    ELSE GuardScan([buf EXCEPT ![i] = ClampSample(buf[i])], i + 1)

\* protectYourEars(buffer, sampleCount) on a channel that exists
ProtectYourEars(buf) == GuardScan(buf, 1)

----------------------------------------------------------------------------
(* The inputs the host supplies *)

\* 0x1.0da76b7be62eep-1015 Hz, a positive rate close to the smallest double
TinyRate == Tiny(1)

\* sample rates handed to prepareToPlay: 220 Hz makes the increments of Notes
\* whole quarter turns; 0 is the invalid rate the code does not reject; at
\* TinyRate the phase of note 33 is finite for one frame and overflows on
\* the next, and the increment of note 45 is an infinity
SampleRates == {Fin(0), Fin(220), TinyRate}

\* note numbers of the note-on messages (55 Hz and 110 Hz)
Notes == {33, 45}

\* the raw bytes of the MIDI messages: note-on 33 (channel 1), note-on 45
\* with the out-of-range velocity 255 (channel 2), note-on 33 with velocity 0,
\* note-off 45 with a velocity byte, a 2-byte program change, and a 4-byte
\* message that starts like a note-on
Messages ==
    { <<144, 33, 127>>, <<145, 45, 255>>, <<144, 33, 0>>, <<128, 45, 64>>,
      <<192, 5>>, <<144, 45, 127, 0>> }

\* juce::MidiMessageMetadata
Metadata(N) ==
    [samplePosition : 0..(N - 1), numBytes : 1..4, data : Messages]

Events(N) == {m \in Metadata(N) : m.numBytes = Len(m.data)}

\* a MidiBuffer keeps its events ordered by samplePosition
IsTimeOrdered(q) ==
    \A i \in 1..Len(q), j \in 1..Len(q) :
        i < j => q[i].samplePosition <= q[j].samplePosition

MidiBuffers(N) ==
    {q \in UNION {[1..n -> Events(N)] : n \in 0..MaxEvents} : IsTimeOrdered(q)}

\* the object as the constructor leaves it: none of the eight fields has an
\* initializer, so each holds whatever its memory held (any bit pattern)
Uninitialized ==
    { [sampleRate |-> Indeterminate, activeNote |-> Indeterminate,
       frequency |-> Indeterminate, amplitude |-> Indeterminate,
       env |-> Indeterminate, envSlope |-> Indeterminate,
       phase |-> Indeterminate, inc |-> Indeterminate] }

\* the bus layouts isBusesLayoutSupported accepts: mono and stereo
ChannelCounts == {1, 2}

----------------------------------------------------------------------------
(* The state machine *)

\* the value of entry while no processBlock call is under way
NoEntry ==
    [sampleRate |-> Fin(0), activeNote |-> 0, frequency |-> Fin(0),
     amplitude |-> Fin(0), env |-> Fin(0), envSlope |-> Fin(0),
     phase |-> Fin(0), inc |-> Fin(0)]

Init ==
    /\ \E g \in Uninitialized :
        /\ sampleRate = g.sampleRate
        /\ activeNote = g.activeNote
        /\ frequency = g.frequency
        /\ amplitude = g.amplitude
        /\ env = g.env
        /\ envSlope = g.envSlope
        /\ phase = g.phase
        /\ inc = g.inc
    /\ numChannels \in ChannelCounts
    /\ prepared = FALSE
    /\ pc = "idle"
    /\ buffer = <<>>
    /\ midiMessages = <<>>
    /\ midiIdx = 1
    /\ bufferOffset = 0
    /\ spans = <<>>
    /\ raw = <<>>
    /\ entry = NoEntry
    /\ lengthInSeconds = 0
    /\ outputBuffer = <<>>
    /\ wav = <<>>

\* a slip in prepareToPlay below: the envelope level is not reset
PrepareToPlayKeepsEnv ==
    /\ pc = "idle"
    /\ \E sr \in SampleRates : sampleRate' = sr
    /\ activeNote' = 0
    /\ phase' = Fin(0)
    /\ inc' = Fin(0)
    /\ prepared' = TRUE
    /\ UNCHANGED <<env, frequency, amplitude, envSlope, numChannels, pc, buffer,
                   midiMessages, midiIdx, bufferOffset, spans, raw, entry>>
    /\ UNCHANGED cli

\* prepareToPlay(sampleRate_, samplesPerBlock), with reset()
PrepareToPlay ==
    /\ pc = "idle"
    /\ \E sr \in SampleRates : sampleRate' = sr
    /\ activeNote' = 0
    /\ env' = Fin(0)
    /\ phase' = Fin(0)
    /\ inc' = Fin(0)
    /\ prepared' = TRUE
    /\ UNCHANGED <<frequency, amplitude, envSlope, numChannels, pc, buffer,
                   midiMessages, midiIdx, bufferOffset, spans, raw, entry>>
    /\ UNCHANGED cli

\* reset(), called by the host between two blocks
Reset ==
    /\ pc = "idle"
    /\ phase' = Fin(0)
    /\ inc' = Fin(0)
    /\ UNCHANGED <<sampleRate, activeNote, frequency, amplitude, env, envSlope,
                   numChannels, prepared, pc, buffer, midiMessages, midiIdx,
                   bufferOffset, spans, raw, entry>>
    /\ UNCHANGED cli

\* processBlock up to the first iteration of splitBufferByEvents: the host
\* hands over a block of N frames and its events, the output channels are
\* cleared, bufferOffset = 0
ProcessBlock ==
    /\ pc = "idle"
    /\ prepared
    /\ \E N \in 0..MaxFrames :
        /\ buffer' = [ch \in 1..numChannels |-> Zeros(N)]
        /\ midiMessages' \in MidiBuffers(N)
    /\ midiIdx' = 1
    /\ bufferOffset' = 0
    /\ spans' = <<>>
    /\ raw' = <<>>
    /\ entry' = Voice
    /\ pc' = "split"
    /\ UNCHANGED <<voice, numChannels, prepared>>
    /\ UNCHANGED cli

\* processBlock called again with the MidiBuffer object as the previous call
\* left it: the host has put no new event into it
ProcessBlockAgain ==
    /\ pc = "idle"
    /\ prepared
    /\ \E N \in 0..MaxFrames :
        /\ \A i \in 1..Len(midiMessages) : midiMessages[i].samplePosition < N
        /\ buffer' = [ch \in 1..numChannels |-> Zeros(N)]
    /\ midiIdx' = 1
    /\ bufferOffset' = 0
    /\ spans' = <<>>
    /\ raw' = <<>>
    /\ entry' = Voice
    /\ pc' = "split"
    /\ UNCHANGED <<voice, numChannels, prepared, midiMessages>>
    /\ UNCHANGED cli

NumSamples == Len(buffer[1])

\* buf with the samples from offset on (0-based) replaced by span
Splice(buf, offset, span) ==
    [i \in 1..Len(buf) |->
        IF i > offset /\ i <= offset + Len(span) THEN span[i - offset] ELSE buf[i]]

\* a slip in render below: each channel is rendered on its own, the second
\* going on where the first stopped
RenderPerChannel(sampleCount, offset) ==
    \E r \in {RenderLoop(Voice, sampleCount * numChannels)} :
    LET part(ch) == SubSeq(r.out, (ch - 1) * sampleCount + 1, ch * sampleCount)
    IN  /\ phase' = r.s.phase
        /\ env' = r.s.env
        /\ raw' = part(1)
        /\ buffer' = [ch \in 1..numChannels |->
                        Splice(buffer[ch], offset, ProtectYourEars(part(ch)))]
        /\ spans' = Append(spans, [offset |-> offset, count |-> sampleCount,
                                   handled |-> midiIdx - 1])
        /\ UNCHANGED <<sampleRate, activeNote, frequency, amplitude, envSlope, inc>>

\* render(buffer, sampleCount, bufferOffset)
Render(sampleCount, offset) ==
    \E r \in {RenderLoop(Voice, sampleCount)} :
        /\ phase' = r.s.phase
        /\ env' = r.s.env
        /\ raw' = r.out
        /\ buffer' = [ch \in 1..numChannels |->
                        Splice(buffer[ch], offset, ProtectYourEars(r.out))]
        /\ spans' = Append(spans, [offset |-> offset, count |-> sampleCount,
                                   handled |-> midiIdx - 1])
        /\ UNCHANGED <<sampleRate, activeNote, frequency, amplitude, envSlope, inc>>

\* a slip in the length below: the segment stops one frame before the event
SamplesThisSegmentShort(metadata, offset) == metadata.samplePosition - offset - 1

\* int samplesThisSegment = metadata.samplePosition - bufferOffset
SamplesThisSegment(metadata, offset) == metadata.samplePosition - offset

\* a slip in the test below: an empty segment is rendered too
NonEmptyOrZero(sampleCount) == sampleCount >= 0

\* the test that guards a call of render
NonEmpty(sampleCount) == sampleCount > 0

\* one iteration of the loop over midiMessages, up to the event itself: the
\* segment before the event is rendered
Segment ==
    /\ pc = "split"
    /\ midiIdx <= Len(midiMessages)
    /\ LET n == SamplesThisSegment(midiMessages[midiIdx], bufferOffset)
       IN  IF NonEmpty(n)
           THEN /\ Render(n, bufferOffset)
                /\ bufferOffset' = bufferOffset + n
           ELSE UNCHANGED <<voice, buffer, bufferOffset, spans, raw>>
    /\ pc' = "midi"
    /\ UNCHANGED <<numChannels, prepared, midiMessages, midiIdx, entry>>
    /\ UNCHANGED cli

\* the rest of the iteration: the event goes to handleMIDI
Handle ==
    /\ pc = "midi"
    /\ \E s \in {ApplyEvent(Voice, midiMessages[midiIdx])} :
           /\ sampleRate' = s.sampleRate
           /\ activeNote' = s.activeNote
           /\ frequency' = s.frequency
           /\ amplitude' = s.amplitude
           /\ env' = s.env
           /\ envSlope' = s.envSlope
           /\ phase' = s.phase
           /\ inc' = s.inc
    /\ midiIdx' = midiIdx + 1
    /\ pc' = "split"
    /\ UNCHANGED <<numChannels, prepared, buffer, midiMessages, bufferOffset,
                   spans, raw, entry>>
    /\ UNCHANGED cli

\* int samplesLastSegment = buffer.getNumSamples() - bufferOffset
SamplesLastSegment(numSamples, offset) == numSamples - offset

\* after the loop: the segment after the last event is rendered
LastSegment ==
    /\ pc = "split"
    /\ midiIdx > Len(midiMessages)
    /\ LET n == SamplesLastSegment(NumSamples, bufferOffset)
       IN  IF NonEmpty(n)
           THEN Render(n, bufferOffset)
           ELSE UNCHANGED <<voice, buffer, spans, raw>>
    /\ pc' = "clear"
    /\ UNCHANGED <<numChannels, prepared, midiMessages, midiIdx, bufferOffset,
                   entry>>
    /\ UNCHANGED cli

\* a slip in the clear below: the events stay in the MidiBuffer
ClearNothing ==
    /\ pc = "clear"
    /\ pc' = "done"
    /\ UNCHANGED <<voice, numChannels, prepared, buffer, midiMessages, midiIdx,
                   bufferOffset, spans, raw, entry>>
    /\ UNCHANGED cli

\* midiMessages.clear(), and processBlock returns
Clear ==
    /\ pc = "clear"
    /\ midiMessages' = <<>>
    /\ pc' = "done"
    /\ UNCHANGED <<voice, numChannels, prepared, buffer, midiIdx, bufferOffset,
                   spans, raw, entry>>
    /\ UNCHANGED cli

\* the host takes the block it owns; the processor keeps nothing of it
TakeBlock ==
    /\ pc = "done"
    /\ buffer' = <<>>
    /\ midiIdx' = 1
    /\ bufferOffset' = 0
    /\ spans' = <<>>
    /\ raw' = <<>>
    /\ entry' = NoEntry
    /\ pc' = "idle"
    /\ UNCHANGED <<voice, numChannels, prepared, midiMessages>>
    /\ UNCHANGED cli

\* the loop of splitBufferByEvents from event i on, on one channel buf, for a
\* voice s and the cursor offset: the channel and the voice when it returns
RECURSIVE SplitLoop(_, _, _, _, _)
SplitLoop(s, buf, events, i, offset) ==
    IF i > Len(events)
    THEN LET n == SamplesLastSegment(Len(buf), offset)
             r == RenderLoop(s, n)
         IN  IF NonEmpty(n)
             THEN [out |-> Splice(buf, offset, ProtectYourEars(r.out)), s |-> r.s]
             ELSE [out |-> buf, s |-> s]
    ELSE LET n == SamplesThisSegment(events[i], offset)
             r == RenderLoop(s, n)
         IN  IF NonEmpty(n)
             THEN SplitLoop(ApplyEvent(r.s, events[i]),
                            Splice(buf, offset, ProtectYourEars(r.out)),
                            events, i + 1, offset + n)
             ELSE SplitLoop(ApplyEvent(s, events[i]), buf, events, i + 1, offset)

\* processBlock as a function: a cleared block of N frames, the events, and
\* the voice s at entry give one channel of output and the voice at return
SplitBufferByEvents(s, events, N) == SplitLoop(s, Zeros(N), events, 1, 0)

Next ==
    \/ PrepareToPlay
    \/ Reset
    \/ ProcessBlock
    \/ ProcessBlockAgain
    \/ Segment
    \/ Handle
    \/ LastSegment
    \/ Clear
    \/ TakeBlock

Spec == Init /\ [][Next]_vars

----------------------------------------------------------------------------
(* The output guard on its own: any span of float samples goes in *)

\* float samples around the thresholds 1.0f and 2.0f, and the non-finite ones
SampleValues ==
    {NaN, PosInf, NegInf}
    \cup {Fin(x) : x \in {0, SampleOne \div 2, SampleOne, SampleOne + 1,
                          SampleTwo, SampleTwo + 1}}
    \cup {Fin(-x) : x \in {SampleOne \div 2, SampleOne, SampleOne + 1,
                           SampleTwo, SampleTwo + 1}}

FloatSpans == UNION {[1..n -> SampleValues] : n \in 0..MaxSpan}

\* a span of raw samples waits in one channel for the guard
GuardInit ==
    /\ raw \in FloatSpans
    /\ buffer = <<raw>>
    /\ pc = "guard"
    /\ sampleRate = Fin(0) /\ activeNote = 0
    /\ frequency = Fin(0) /\ amplitude = Fin(0)
    /\ env = Fin(0) /\ envSlope = Fin(0) /\ phase = Fin(0) /\ inc = Fin(0)
    /\ numChannels = 1
    /\ prepared = FALSE
    /\ midiMessages = <<>>
    /\ midiIdx = 1
    /\ bufferOffset = 0
    /\ spans = <<>>
    /\ entry = NoEntry
    /\ lengthInSeconds = 0
    /\ outputBuffer = <<>>
    /\ wav = <<>>

\* protectYourEars(outputBufferLeft, sampleCount)
GuardCall ==
    /\ pc = "guard"
    /\ buffer' = [buffer EXCEPT ![1] = ProtectYourEars(buffer[1])]
    /\ pc' = "guarded"
    /\ UNCHANGED <<voice, numChannels, prepared, midiMessages, midiIdx,
                   bufferOffset, spans, raw, entry>>
    /\ UNCHANGED cli

\* a slip in the call below: a disqualifying sample zeroes the whole channel
GuardSpanWholeChannel(buf, start, len) ==
    IF \E i \in (start + 1)..(start + len) : Silences(buf[i])
    THEN Zeros(Len(buf))
    ELSE Splice(buf, start, ProtectYourEars(SubSeq(buf, start + 1, start + len)))

\* protectYourEars(outputBufferLeft, sampleCount) as render calls it, with
\* outputBufferLeft = the channel + bufferOffset: the channel buf afterwards
GuardSpan(buf, start, len) ==
    Splice(buf, start, ProtectYourEars(SubSeq(buf, start + 1, start + len)))

\* the guard called as in render, on the span [start, start + len) of a
\* channel that holds other samples before and after it
GuardSubSpan ==
    /\ pc = "guard"
    /\ \E start \in 0..Len(buffer[1]), len \in 1..MaxSpan :
        /\ start + len <= Len(buffer[1])
        /\ buffer' = [buffer EXCEPT ![1] = GuardSpan(buffer[1], start, len)]
        /\ spans' = <<[offset |-> start, count |-> len, handled |-> 0]>>
    /\ pc' = "spanned"
    /\ UNCHANGED <<voice, numChannels, prepared, midiMessages, midiIdx,
                   bufferOffset, raw, entry>>
    /\ UNCHANGED cli

\* protectYourEars called again on the span it has processed
GuardAgain ==
    /\ pc = "guarded"
    /\ buffer' = [buffer EXCEPT ![1] = ProtectYourEars(buffer[1])]
    /\ pc' = "guarded again"
    /\ UNCHANGED <<voice, numChannels, prepared, midiMessages, midiIdx,
                   bufferOffset, spans, raw, entry>>
    /\ UNCHANGED cli

GuardNext ==
    \/ GuardCall
    \/ GuardSubSpan
    \/ GuardAgain

SpecGuard == GuardInit /\ [][GuardNext]_vars

----------------------------------------------------------------------------
(* Properties of the block splitting *)

\* processBlock is between its entry and the host taking the block
InBlock == pc \in {"split", "midi", "clear", "done"}

\* the events are still in the MidiBuffer
InPass == pc \in {"split", "midi", "clear"}

RECURSIVE SumCounts(_)
SumCounts(q) == IF q = <<>> THEN 0 ELSE Head(q).count + SumCounts(Tail(q))

\* the frame after the last rendered one
SpansEnd ==
    IF spans = <<>> THEN 0
    ELSE spans[Len(spans)].offset + spans[Len(spans)].count

C1_Tiling ==
    InBlock =>
        /\ \A i \in 1..Len(spans) :
            /\ spans[i].count > 0
            /\ spans[i].offset =
                 (IF i = 1 THEN 0 ELSE spans[i - 1].offset + spans[i - 1].count)
            /\ spans[i].offset + spans[i].count <= NumSamples
        /\ bufferOffset >= 0
        /\ bufferOffset <= NumSamples
        /\ pc \in {"split", "midi"} => bufferOffset = SpansEnd
        /\ pc \in {"clear", "done"} =>
            /\ SpansEnd = NumSamples
            /\ SumCounts(spans) = NumSamples

C1_CursorStep == InPass => bufferOffset' >= bufferOffset

\* C1: one splitBufferByEvents pass over a block of N frames renders the
\* frames of [0, N) exactly once and in increasing order: the render calls are
\* contiguous spans that start at 0, none has length zero, none reaches
\* past N, their lengths sum to N when the pass ends, and the cursor
\* bufferOffset never decreases and never exceeds N.
C1_SplitRendersEachFrameOnce == []C1_Tiling /\ [][C1_CursorStep]_vars

\* two events at the same offset 1 of a 2-frame block: spans [0,1) and [1,2)
C1_Witness ==
    /\ pc = "clear"
    /\ NumSamples = 2
    /\ Len(midiMessages) = 2
    /\ midiMessages[1].samplePosition = 1
    /\ midiMessages[2].samplePosition = 1
    /\ spans = << [offset |-> 0, count |-> 1, handled |-> 0],
                  [offset |-> 1, count |-> 1, handled |-> 2] >>

\* the number of events of the buffer at or before frame k
EventsUpTo(k) ==
    Cardinality({i \in 1..Len(midiMessages) : midiMessages[i].samplePosition <= k})

\* C2: an event with offset k goes to handleMIDI when exactly the frames
\* before k have been rendered, and every frame k is rendered when exactly
\* the events with offset <= k have been handled, each once and in the order
\* of the buffer (the handled events are always a prefix of it).
C2_EventsAtTheirOffsets ==
    InPass =>
        /\ pc = "midi" =>
            /\ bufferOffset = midiMessages[midiIdx].samplePosition
            /\ SpansEnd = midiMessages[midiIdx].samplePosition
        /\ \A i \in 1..Len(spans) :
            \A k \in spans[i].offset..(spans[i].offset + spans[i].count - 1) :
                spans[i].handled = EventsUpTo(k)
        /\ midiIdx \in 1..(Len(midiMessages) + 1)
        /\ \A i \in 1..Len(spans) : spans[i].handled < midiIdx

\* a note-on and the note-off of the same note, both at offset 1: frame 0 is
\* rendered before both, frame 1 after both
C2_Witness ==
    /\ pc = "clear"
    /\ Len(midiMessages) = 2
    /\ midiMessages[1] = [samplePosition |-> 1, numBytes |-> 3, data |-> <<144, 33, 127>>]
    /\ midiMessages[2] = [samplePosition |-> 1, numBytes |-> 3, data |-> <<144, 33, 0>>]
    /\ Len(spans) = 2
    /\ spans[2].handled = 2
    /\ activeNote = 0
    /\ FGt(env, Fin(0))

----------------------------------------------------------------------------
(* Properties of the voice *)

\* the step that hands the event under the iterator to handleMIDI
HandleStep == pc = "midi" /\ pc' = "split"

\* a step that calls render
RenderStep == Len(spans') = Len(spans) + 1

Event == midiMessages[midiIdx]

IsNoteOffEvent(m) == m.numBytes <= 3 /\ StatusNibble(m.data[1]) = 128
IsNoteOnStatus(m) == m.numBytes <= 3 /\ StatusNibble(m.data[1]) = 144

C3_Step ==
    (HandleStep /\ IsNoteOffEvent(Event)) =>
        /\ Data1(Event) # activeNote =>
            /\ voice' = voice
            /\ activeNote > 0 => FGt(envSlope', Fin(0))
        /\ Data1(Event) = activeNote =>
            /\ activeNote' = 0
            /\ FLt(envSlope', Fin(0))
            /\ UNCHANGED <<sampleRate, frequency, amplitude, env, phase, inc>>

\* C3: a note-off (status 0x8) for a note that is not the active note changes
\* no field of the voice, and while a note is active the envelope slope stays
\* positive; a note-off for the active note sets activeNote to 0 and the
\* envelope slope negative and changes nothing else.
C3_StaleNoteOffIgnored == [][C3_Step]_vars

\* the note-off of note 45 has just been handled while note 33 is active
C3_Witness ==
    /\ pc = "split"
    /\ midiIdx >= 2
    /\ midiMessages[midiIdx - 1].data = <<128, 45, 64>>
    /\ activeNote = 33
    /\ FGt(envSlope, Fin(0))
    /\ FGt(env, Fin(0))

IsZeroSpan(q) == \A i \in 1..Len(q) : q[i] = Fin(0)

C4_Step ==
    (prepared /\ activeNote = 0 /\ env = Fin(0) /\ RenderStep) =>
        /\ voice' = voice
        /\ IsZeroSpan(raw')
        /\ Len(raw') = spans'[Len(spans')].count
        /\ \A ch \in 1..numChannels :
            \A k \in 1..Len(raw') : buffer'[ch][bufferOffset + k] = Fin(0)

\* C4: a render call made while the voice is silent (activeNote = 0 and
\* env = 0) writes 0 to every frame of its span in every channel and leaves
\* every field of the voice as it was.
C4_SilentRenderIsIdle == [][C4_Step]_vars

\* silent ever since prepareToPlay came after a note-on (the slope is still the
\* attack slope), and a span of two frames has been rendered
C4_Witness ==
    /\ pc = "clear"
    /\ prepared
    /\ activeNote = 0
    /\ env = Fin(0)
    /\ ~IsIndeterminate(envSlope)
    /\ FGt(envSlope, Fin(0))
    /\ Len(raw) = 2
    /\ IsZeroSpan(raw)
    /\ \A ch \in 1..numChannels : IsZeroSpan(buffer[ch])

----------------------------------------------------------------------------
(* Properties of the output guard *)

Disqualifies(x) == IsNaN(x) \/ IsInf(x) \/ x.v > SampleTwo \/ x.v < -SampleTwo

\* what the guard is to make of a span
GuardExpected(span) ==
    IF \E i \in 1..Len(span) : Disqualifies(span[i])
    THEN [i \in 1..Len(span) |-> Fin(0)]
    ELSE [i \in 1..Len(span) |->
            IF span[i].v > SampleOne THEN Fin(SampleOne)
            ELSE IF span[i].v < -SampleOne THEN Fin(-SampleOne)
            ELSE span[i]]

\* C5: the span the guard leaves is all zeros when any sample of the input is
\* NaN, infinite or of magnitude above 2.0; otherwise each sample of magnitude
\* above 1.0 is +1.0 or -1.0 with its sign and every other sample is as it
\* was (1.0 stays, 2.0 is clamped).
C5_GuardResult == pc = "guarded" => buffer[1] = GuardExpected(raw)

\* 2.0 alone would be clamped; the 2.0+ after it zeroes the whole span
C5_Witness ==
    /\ pc = "guarded"
    /\ raw = <<Fin(SampleTwo), Fin(-SampleOne), Fin(SampleTwo + 1)>>
    /\ buffer[1] = <<Fin(0), Fin(0), Fin(0)>>

\* C6: every sample of every output channel of a block is finite and in
\* [-1.0, 1.0], during the pass and after processBlock has returned.
C6_OutputInRange ==
    InBlock =>
        \A ch \in 1..Len(buffer) :
            \A i \in 1..Len(buffer[ch]) :
                /\ IsFin(buffer[ch][i])
                /\ buffer[ch][i].v >= -SampleOne
                /\ buffer[ch][i].v <= SampleOne

\* at sample rate 0 the voice has produced a NaN, and the block is silent
C6_Witness ==
    /\ pc = "done"
    /\ sampleRate = Fin(0)
    /\ \E i \in 1..Len(raw) : IsNaN(raw[i])
    /\ \A ch \in 1..numChannels : IsZeroSpan(buffer[ch])
    /\ Len(buffer[1]) = 2

----------------------------------------------------------------------------
(* Properties of the envelope and the oscillator *)

C7_EnvInRange ==
    prepared => IsFin(env) /\ env.v >= 0 /\ env.v <= EnvOne

C7_ScaledByClampedLevel ==
    RenderStep =>
        \A i \in 1..Len(raw') :
            (IsFin(raw'[i]) /\ raw'[i] # Fin(0)) =>
                /\ IsFin(amplitude)
                /\ raw'[i].v <= amplitude.v * EnvOne
                /\ raw'[i].v >= -(amplitude.v * EnvOne)

\* C7: once prepareToPlay has run, 0 <= env <= 1 in every state, and every
\* sample is scaled by the clamped level (its magnitude is at most the
\* amplitude).
C7_EnvelopeBounded == []C7_EnvInRange /\ [][C7_ScaledByClampedLevel]_vars

\* the attack has overshot 1.0 and was clamped
C7_Witness ==
    /\ prepared
    /\ sampleRate = Fin(220)
    /\ activeNote > 0
    /\ envSlope = Fin(100)
    /\ env = Fin(EnvOne)

IncInRange == prepared /\ IsFin(inc) /\ inc.v > 0 /\ inc.v < TWO_PI

\* C8 as claimed: with 0 < inc < 2 pi the phase is in [0, 2 pi), strictly
\* below 2 pi, in every state.
C8_PhaseBelowTwoPi ==
    IncInRange => IsFin(phase) /\ phase.v >= 0 /\ phase.v < TWO_PI

\* C8 as amended: with 0 < inc < 2 pi the phase is in [0, 2 pi] in every
\* state; it is exactly 2 pi after a tick that lands on 2 pi, which the wrap
\* (phase > TWO_PI) leaves alone.
C8_PhaseAtMostTwoPi ==
    IncInRange => IsFin(phase) /\ phase.v >= 0 /\ phase.v <= TWO_PI

\* four ticks of a quarter turn from phase 0
C8_Witness ==
    /\ prepared
    /\ inc = Fin(1)
    /\ activeNote = 33
    /\ phase = Fin(TWO_PI)

----------------------------------------------------------------------------
(* Properties of the MIDI dispatch *)

C9_Step ==
    /\ (HandleStep /\ IsNoteOnStatus(Event) /\ Data2(Event) = 0) =>
        /\ Voice' = NoteOff(Voice, Data1(Event))
        /\ UNCHANGED <<sampleRate, amplitude, frequency, inc, phase, env>>
        /\ Data1(Event) = activeNote =>
            activeNote' = 0 /\ envSlope' = ReleaseSlope(sampleRate)
        /\ Data1(Event) # activeNote =>
            activeNote' = activeNote /\ envSlope' = envSlope
    /\ (HandleStep /\ IsNoteOnStatus(Event) /\ Data2(Event) > 0) =>
        /\ activeNote' = Data1(Event)
        /\ amplitude' = Fin(Data2(Event))
        /\ envSlope' = AttackSlope(sampleRate)
    /\ (HandleStep /\ IsNoteOffEvent(Event)) =>
        Voice' = NoteOff(Voice, Data1(Event))

\* C9: an event of status 0x9 with velocity 0 does what noteOff of its note
\* does: amplitude, frequency and increment stay, activeNote is cleared and
\* the release starts only when the note is the active one, and activeNote is
\* never set to the note.  Status 0x9 with velocity > 0 is a note-on; status
\* 0x8 is a note-off whatever its velocity byte.
C9_ZeroVelocityIsNoteOff == [][C9_Step]_vars

\* note-on 33 and then note-on 33 with velocity 0, both handled: released
C9_Witness ==
    /\ pc = "split"
    /\ midiIdx = 3
    /\ midiMessages[1].data = <<144, 33, 127>>
    /\ midiMessages[2].data = <<144, 33, 0>>
    /\ activeNote = 0
    /\ amplitude = Fin(127)
    /\ frequency = Fin(55)
    /\ envSlope = Fin(-100)
    /\ FGt(env, Fin(0))

C10_Step ==
    (HandleStep /\ IsNoteOnStatus(Event) /\ Data2(Event) > 0) =>
        /\ activeNote' = Event.data[2]
        /\ amplitude' = Fin(Event.data[3])
        /\ IsFin(frequency')
        /\ frequency'.v * 2^((69 - Event.data[2]) \div 12) = 440
        /\ inc' = (CASE sampleRate = Fin(0) -> PosInf
                     [] sampleRate = TinyRate ->
                            (IF frequency'.v * TWO_PI <= PhaseHugeMax
                             THEN Huge(frequency'.v * TWO_PI) ELSE PosInf)
                     [] OTHER -> Fin((frequency'.v * TWO_PI) \div sampleRate.v))
        /\ FGt(envSlope', Fin(0))
        /\ phase' = phase
        /\ env' = env
        /\ sampleRate' = sampleRate

\* C10: a note-on, whatever the voice is doing, sets activeNote, amplitude,
\* frequency and increment from its note and velocity and the envelope slope
\* positive, and leaves the phase and the envelope level as they were.
C10_NoteOnSteals == [][C10_Step]_vars

\* note 33 released at frame 0, note 45 on at frame 1: the level is where the
\* release left it, the phase where note 33 left it
C10_Witness ==
    /\ pc = "split"
    /\ midiIdx = 3
    /\ midiMessages[1].data = <<144, 33, 0>>
    /\ midiMessages[2].data = <<145, 45, 255>>
    /\ spans = << [offset |-> 0, count |-> 1, handled |-> 1] >>
    /\ activeNote = 45
    /\ amplitude = Fin(255)
    /\ frequency = Fin(110)
    /\ inc = Fin(2)
    /\ envSlope = Fin(100)
    /\ env = Fin(120)
    /\ phase # Fin(0)


----------------------------------------------------------------------------
(* Properties of ignored events *)

\* an event of more than 3 bytes, or of a status nibble other than 0x8, 0x9
Ignored(m) == m.numBytes > 3 \/ StatusNibble(m.data[1]) \notin {128, 144}

\* the sequence q without its i-th element
Without(q, i) == SubSeq(q, 1, i - 1) \o SubSeq(q, i + 1, Len(q))

C11_Step == (HandleStep /\ Ignored(Event)) => voice' = voice

\* the block the same call gives for the event sequence without event i
WithoutEvent(i) ==
    SplitBufferByEvents(entry, Without(midiMessages, i), NumSamples)

\* C11 as claimed, second half: the block (every channel, and the voice at
\* return) is what the same call gives for the event sequence without the
\* ignored event.
C11_SameBlock ==
    pc = "clear" =>
        \A i \in 1..Len(midiMessages) :
            Ignored(midiMessages[i]) =>
                /\ Voice = WithoutEvent(i).s
                /\ \A ch \in 1..numChannels : buffer[ch] = WithoutEvent(i).out

\* the phase has not run off to an infinity: no sample of the block is a NaN
PhaseFinite == ~IsInf(phase) /\ ~IsNaN(phase)

C11_SameUnlessSilenced ==
    pc = "clear" =>
        \A i \in 1..Len(midiMessages) :
            Ignored(midiMessages[i]) =>
                \A r \in {WithoutEvent(i)} :
                    /\ Voice = r.s
                    /\ \A ch \in 1..numChannels :
                        /\ PhaseFinite => buffer[ch] = r.out
                        /\ \A k \in 1..NumSamples :
                            buffer[ch][k] = r.out[k] \/ r.out[k] = Fin(0)

\* C11 as amended: an event of more than 3 bytes, or whose status nibble is
\* neither 0x8 nor 0x9, leaves every field of the voice as it was when it is
\* handled, and the voice at return is what the same call gives for the
\* event sequence without that event.  The samples are the same too while
\* the phase is finite.  The ignored event still splits the render span and
\* the guard works span by span, so when a span is silenced (the phase has
\* overflowed and a sample is NaN) a frame can keep its sample where the
\* call without the event gives 0; no frame differs in another way.
C11_IgnoredEventHasNoEffect == []C11_SameUnlessSilenced /\ [][C11_Step]_vars

\* at TinyRate note 33 is held and its phase is one increment, the last
\* finite one: a program change at frame 1 splits the block of 2 frames,
\* frame 0 keeps its sample 0.5 and only frame 1, the NaN, is zeroed, where
\* the block without the event is one span and all zeros
C11_Witness ==
    /\ pc = "clear"
    /\ sampleRate = TinyRate
    /\ entry.activeNote = 33
    /\ entry.amplitude = Fin(127)
    /\ entry.phase = Huge(220)
    /\ Len(midiMessages) = 1
    /\ midiMessages[1].data = <<192, 5>>
    /\ midiMessages[1].samplePosition = 1
    /\ Len(spans) = 2
    /\ IsNaN(raw[1])
    /\ buffer[1] = <<Fin(127 * EnvOne), Fin(0)>>
    /\ WithoutEvent(1).out = <<Fin(0), Fin(0)>>
    /\ Voice = WithoutEvent(1).s
    /\ phase = PosInf


----------------------------------------------------------------------------
(* A note-on on its own: any velocity of a MIDI data byte goes in *)

\* the velocity that gives the ceiling amplitude: velocity / 127.0
MaxVelocity == 127

Velocities == 1..MaxVelocity

\* note numbers a whole number of octaves from note 69
OctaveNotes == {33, 45, 57, 69}

\* the voice after prepareToPlay(sr) on a new processor
Prepared(sr) ==
    [sampleRate |-> sr, activeNote |-> 0, frequency |-> Indeterminate,
     amplitude |-> Indeterminate, env |-> Fin(0), envSlope |-> Indeterminate,
     phase |-> Fin(0), inc |-> Fin(0)]

\* the voices a note-on can meet: silent, or holding an earlier note
EarlierVoices ==
    {Prepared(sr) : sr \in SampleRates}
    \cup {NoteOn(Prepared(sr), n, v) :
            sr \in SampleRates, n \in Notes, v \in {1, 64, 127, 255}}

\* splitBufferByEvents has reached a note-on at frame 0 of a 1-frame block
NoteOnInit ==
    /\ \E s \in EarlierVoices :
        /\ sampleRate = s.sampleRate
        /\ activeNote = s.activeNote
        /\ frequency = s.frequency
        /\ amplitude = s.amplitude
        /\ env = s.env
        /\ envSlope = s.envSlope
        /\ phase = s.phase
        /\ inc = s.inc
        /\ entry = s
    /\ \E ch \in 0..1, n \in OctaveNotes, v \in Velocities :
        midiMessages = << [samplePosition |-> 0, numBytes |-> 3,
                           data |-> <<144 + ch, n, v>>] >>
    /\ numChannels = 1
    /\ prepared = TRUE
    /\ pc = "midi"
    /\ buffer = <<Zeros(1)>>
    /\ midiIdx = 1
    /\ bufferOffset = 0
    /\ spans = <<>>
    /\ raw = <<>>
    /\ lengthInSeconds = 0
    /\ outputBuffer = <<>>
    /\ wav = <<>>

NoteOnNext == Handle

SpecNoteOn == NoteOnInit /\ [][NoteOnNext]_vars

\* C12: after a note-on of velocity v in 1..127 the amplitude is
\* (v / 127) * 0.5 whatever the note number and whatever the voice held
\* before: it is above 0, at most 0.5, and 0.5 exactly when v = 127.
C12_AmplitudeFromVelocity ==
    (pc = "split" /\ midiIdx = 2) =>
        LET v == midiMessages[1].data[3]
        IN  /\ IsFin(amplitude)
            /\ amplitude.v * MaxVelocity * 2 = v * AmpDen
            /\ amplitude.v > 0
            /\ amplitude.v * 2 <= AmpDen
            /\ (amplitude.v * 2 = AmpDen) <=> (v = MaxVelocity)

\* a note-on of velocity 64 for note 57 met a voice that held note 33 at
\* velocity 127: the amplitude is 64 / 254, below the ceiling
C12_Witness ==
    /\ pc = "split"
    /\ midiIdx = 2
    /\ midiMessages[1].data = <<144, 57, 64>>
    /\ entry.activeNote = 33
    /\ entry.amplitude = Fin(127)
    /\ activeNote = 57
    /\ amplitude = Fin(64)


----------------------------------------------------------------------------
(* Properties of prepareToPlay *)

\* a step between two blocks that does what reset() alone does
ResetStep ==
    /\ pc = "idle" /\ pc' = "idle"
    /\ prepared' = prepared
    /\ UNCHANGED <<sampleRate, activeNote, env>>

\* a step of prepareToPlay: a step between two blocks that does more than
\* reset() does (a call that finds sampleRate, activeNote and env as it leaves
\* them is a step of reset())
PrepareStep == pc = "idle" /\ pc' = "idle" /\ ~ResetStep

IsNoteOn(m) == IsNoteOnStatus(m) /\ Data2(m) > 0

C13_Reset ==
    /\ PrepareStep =>
        /\ activeNote' = 0
        /\ env' = Fin(0)
        /\ phase' = Fin(0)
        /\ inc' = Fin(0)
        /\ ~Sounding(Voice')
    /\ ResetStep => phase' = Fin(0) /\ inc' = Fin(0)

C13_SilentBlock ==
    (/\ pc = "clear"
     /\ entry.activeNote = 0
     /\ entry.env = Fin(0)
     /\ \A i \in 1..Len(midiMessages) : ~IsNoteOn(midiMessages[i])) =>
        /\ \A ch \in 1..numChannels : IsZeroSpan(buffer[ch])
        /\ activeNote = 0
        /\ env = Fin(0)

\* once prepareToPlay has run, the fields it assigns hold written values,
\* and a sounding voice reads only fields a note event has written: what
\* the constructor left in the object never reaches a sample
C13_Determinate ==
    /\ prepared =>
        /\ activeNote >= 0
        /\ ~IsIndeterminate(sampleRate) /\ ~IsIndeterminate(env)
        /\ ~IsIndeterminate(phase) /\ ~IsIndeterminate(inc)
    /\ (prepared /\ Sounding(Voice)) =>
        /\ ~IsIndeterminate(frequency) /\ ~IsIndeterminate(amplitude)
        /\ ~IsIndeterminate(envSlope)
    /\ \A ch \in 1..Len(buffer) : \A i \in 1..Len(buffer[ch]) :
        ~IsIndeterminate(buffer[ch][i])

\* C13: prepareToPlay, whatever the voice is doing or whatever the
\* constructor left in the fields, leaves activeNote = 0, env = 0, phase = 0
\* and inc = 0 (reset() on its own leaves phase = 0 and inc = 0), so the
\* voice is silent; and a block that is entered with a silent voice and
\* holds no note-on is all zeros in every channel and returns with the voice
\* silent, so this goes on for every following block until a note-on.
C13_PrepareResets ==
    []C13_SilentBlock /\ []C13_Determinate /\ [][C13_Reset]_vars

\* prepareToPlay came while a note was held (the slope is still the attack
\* slope); the next block of 2 frames holds only a note-off and is silent
C13_Witness ==
    /\ pc = "clear"
    /\ entry.activeNote = 0
    /\ entry.env = Fin(0)
    /\ entry.amplitude = Fin(127)
    /\ FGt(entry.envSlope, Fin(0))
    /\ Len(midiMessages) = 1
    /\ midiMessages[1].data = <<128, 45, 64>>
    /\ NumSamples = 2
    /\ \A ch \in 1..numChannels : IsZeroSpan(buffer[ch])


----------------------------------------------------------------------------
(* Properties of the event buffer *)

\* processBlock is entered with the MidiBuffer as it was left
AgainStep == pc = "idle" /\ pc' = "split" /\ midiMessages' = midiMessages

C14_Emptied ==
    /\ pc \in {"done", "idle"} => midiMessages = <<>>
    /\ pc = "clear" => midiIdx = Len(midiMessages) + 1

C14_Once ==
    /\ HandleStep => midiIdx' = midiIdx + 1 /\ midiMessages' = midiMessages
    /\ (pc \in {"split", "midi"} /\ ~HandleStep) =>
            midiIdx' = midiIdx /\ midiMessages' = midiMessages
    /\ AgainStep => midiMessages' = <<>>

\* C14: in a pass the iterator goes over the events of the block one by
\* one, each is handed to handleMIDI once, and when the pass is over the
\* MidiBuffer is empty, so a later processBlock call that gets the buffer as
\* it was left has no event to apply.
C14_EventsAppliedOnce == []C14_Emptied /\ [][C14_Once]_vars

\* a pass has handled two events (a note-on among them) and emptied the buffer
C14_Witness ==
    /\ pc = "done"
    /\ midiMessages = <<>>
    /\ midiIdx = 3
    /\ NumSamples = 2
    /\ spans = << [offset |-> 0, count |-> 1, handled |-> 1],
                  [offset |-> 1, count |-> 1, handled |-> 2] >>
    /\ entry.activeNote = 0
    /\ activeNote = 45


----------------------------------------------------------------------------
(* The command line program (cli/main.cpp): a sine written to output.wav.  *)
(* Its reset, startSound and processSample are those of the plug-in, line  *)
(* for line; its amplitude is in units of 1 / CliAmpDen of full scale.     *)

MaxSeconds == 2     \* largest lengthInSeconds

CliAmpDen == 4
Int16Max == 32767

\* the settings at the top of main.cpp: rates and pitches that make the
\* increment a whole number of quarter turns, amplitudes 0.25, 0.5, 0.75, 1.0
CliSettings ==
    {c \in [sampleRate : {4, 8}, frequency : {1, 2, 4},
            amplitude : 1..CliAmpDen, lengthInSeconds : 0..MaxSeconds] :
        (c.frequency * TWO_PI) % c.sampleRate = 0}

\* int sampleCount = static_cast<int>(sampleRate * lengthInSeconds)
SampleCount == sampleRate.v * lengthInSeconds

\* static_cast<int16_t>(output * 32767.0): the fraction is dropped
ToInt16(output) ==
    LET scaled == output.v * Int16Max
    IN  IF scaled >= 0 THEN scaled \div CliAmpDen
        ELSE -((-scaled) \div CliAmpDen)

\* the program starts: the settings are set, phase and inc are zero
CliInit ==
    /\ \E c \in CliSettings :
        /\ sampleRate = Fin(c.sampleRate)
        /\ frequency = Fin(c.frequency)
        /\ amplitude = Fin(c.amplitude)
        /\ lengthInSeconds = c.lengthInSeconds
    /\ phase = Fin(0)
    /\ inc = Fin(0)
    /\ outputBuffer = <<>>
    /\ wav = <<>>
    /\ raw = <<>>
    /\ pc = "main"
    /\ activeNote = 0
    /\ env = Fin(0)
    /\ envSlope = Fin(0)
    /\ numChannels = 1
    /\ prepared = FALSE
    /\ buffer = <<>>
    /\ midiMessages = <<>>
    /\ midiIdx = 1
    /\ bufferOffset = 0
    /\ spans = <<>>
    /\ entry = NoEntry

\* reset(); startSound(); and the buffer is allocated
CliStart ==
    /\ pc = "main"
    /\ phase' = Fin(0)
    /\ inc' = StartSound([Voice EXCEPT !.phase = Fin(0), !.inc = Fin(0)]).inc
    /\ outputBuffer' = <<>>
    /\ pc' = "loop"
    /\ UNCHANGED <<sampleRate, activeNote, frequency, amplitude, env, envSlope,
                   numChannels, prepared, buffer, midiMessages, midiIdx,
                   bufferOffset, spans, raw, entry, lengthInSeconds, wav>>

\* one iteration of the loop: outputBuffer[sample] = int16 of processSample()
CliSample ==
    /\ pc = "loop"
    /\ Len(outputBuffer) < SampleCount
    /\ LET ps == ProcessSample(Voice)
       IN  /\ phase' = ps.s.phase
           /\ raw' = Append(raw, ps.out)
           /\ outputBuffer' = Append(outputBuffer, ToInt16(ps.out))
    /\ UNCHANGED <<sampleRate, activeNote, frequency, amplitude, env, envSlope,
                   inc, numChannels, prepared, pc, buffer, midiMessages, midiIdx,
                   bufferOffset, spans, entry, lengthInSeconds, wav>>

\* fopen fails: main returns -1 and writes nothing
CliOpenFails ==
    /\ pc = "loop"
    /\ Len(outputBuffer) = SampleCount
    /\ pc' = "failed"
    /\ UNCHANGED <<voice, numChannels, prepared, buffer, midiMessages, midiIdx,
                   bufferOffset, spans, raw, entry, cli>>

\* the header fields and the samples, as the fwrite calls write them
CliWrite ==
    /\ pc = "loop"
    /\ Len(outputBuffer) = SampleCount
    /\ LET dataLength == SampleCount * 2
           srate == sampleRate.v
       IN  wav' = [length |-> 44 + dataLength,
                   blockSize |-> 16,
                   format |-> 1,
                   channels |-> 1,
                   srate |-> srate,
                   bytesPerSecond |-> srate * 2,
                   bytesPerSample |-> 2,
                   bitsPerSample |-> 16,
                   dataLength |-> dataLength,
                   data |-> outputBuffer]
    /\ pc' = "written"
    /\ UNCHANGED <<voice, numChannels, prepared, buffer, midiMessages, midiIdx,
                   bufferOffset, spans, raw, entry, lengthInSeconds, outputBuffer>>

CliNext ==
    \/ CliStart
    \/ CliSample
    \/ CliOpenFails
    \/ CliWrite

SpecCli == CliInit /\ [][CliNext]_vars

\* C15 as claimed: in the file written the RIFF length field is the data
\* length plus 36, the data length is 2 bytes times the sample count, and the
\* byte rate is the sample rate times the block align of 2.
C15_RiffLengthIsDataPlus36 ==
    pc = "written" =>
        /\ wav.length = wav.dataLength + 36
        /\ wav.dataLength = 2 * SampleCount
        /\ wav.dataLength = 2 * Len(wav.data)
        /\ wav.bytesPerSample = 2
        /\ wav.bytesPerSecond = wav.srate * wav.bytesPerSample

\* 8 samples are written: the data length is 16 and the length field is 60
C15_Witness ==
    /\ pc = "written"
    /\ Len(wav.data) = 8
    /\ wav.dataLength = 16
    /\ wav.bytesPerSecond = 2 * sampleRate.v
    /\ wav.length = 60

\* round(x) of <cmath> for the scaled sample: to the nearest integer, halves
\* away from zero
Round(output) ==
    LET scaled == output.v * Int16Max
        mag == IF scaled >= 0 THEN scaled ELSE -scaled
        q == (2 * mag + CliAmpDen) \div (2 * CliAmpDen)
    IN  IF scaled >= 0 THEN q ELSE -q

\* C16 as claimed: every 16-bit sample in the buffer is the float sample
\* times 32767 rounded to the nearest integer.
C16_SamplesRounded ==
    \A i \in 1..Len(outputBuffer) : outputBuffer[i] = Round(raw[i])

\* amplitude 0.25 at a quarter turn: 8191.75 is stored as 8191; and at three
\* quarter turns -8191.75 is stored as -8191
C16_Witness ==
    /\ pc = "written"
    /\ amplitude = Fin(1)
    /\ Len(raw) >= 4
    /\ raw[2] = Fin(1)
    /\ wav.data[2] = 8191
    /\ raw[4] = Fin(-1)
    /\ wav.data[4] = -8191


----------------------------------------------------------------------------
(* Properties of the channels *)

C17_ChannelsEqual ==
    InBlock =>
        /\ Len(buffer) = numChannels
        /\ \A ch \in 1..numChannels : buffer[ch] = buffer[1]

\* the block and the voice at the end of a pass are those of the one-channel
\* function of the voice at entry and the events
C17_AsOneChannel ==
    pc = "clear" =>
        LET r == SplitBufferByEvents(entry, midiMessages, NumSamples)
        IN  /\ Voice = r.s
            /\ \A ch \in 1..numChannels : buffer[ch] = r.out

\* a render of count frames while a note is held: count ticks of the
\* oscillator and of the envelope
C17_OneTickPerFrame ==
    (RenderStep /\ activeNote > 0) =>
        LET count == spans'[Len(spans')].count
        IN  /\ (IsFin(phase) /\ IsFin(inc)) =>
                /\ IsFin(phase')
                /\ (phase'.v - (phase.v + count * inc.v)) % TWO_PI = 0
            /\ (IsFin(envSlope) /\ IsFin(env) /\ envSlope.v > 0 /\ env.v >= 0) =>
                env' = Fin(IF env.v + count * envSlope.v >= EnvOne THEN EnvOne
                           ELSE env.v + count * envSlope.v)

\* C17: a render of n frames ticks the voice n times whatever the channel
\* count, every channel of the block holds the same samples at every frame,
\* also where the guard has clamped or zeroed, and the block and the voice
\* after it are those of a one-channel render of the same events.
C17_MonoDuplicated ==
    []C17_ChannelsEqual /\ []C17_AsOneChannel /\ [][C17_OneTickPerFrame]_vars

\* stereo, note 45 at velocity 255 on an odd phase and full level: frame 2 of
\* the span was above 1.0 and is clamped to 1.0 or -1.0 in both channels
C17_Witness ==
    /\ pc = "clear"
    /\ numChannels = 2
    /\ NumSamples = 2
    /\ Len(raw) = 2
    /\ IsFin(raw[2])
    /\ (raw[2].v > SampleOne \/ raw[2].v < -SampleOne)
    /\ buffer[1][2] # raw[2]
    /\ buffer[1][2].v # 0
    /\ buffer[2] = buffer[1]
    /\ activeNote = 45


----------------------------------------------------------------------------
(* Properties of the guard on a span inside a block *)

\* the span of the channel the guard was called on
GuardedSpan == SubSeq(raw, spans[1].offset + 1, spans[1].offset + spans[1].count)

C18_SpanOnly ==
    pc = "spanned" =>
        /\ Len(buffer[1]) = Len(raw)
        /\ \A i \in 1..Len(raw) :
            IF i > spans[1].offset /\ i <= spans[1].offset + spans[1].count
            THEN /\ buffer[1][i] = GuardExpected(GuardedSpan)[i - spans[1].offset]
                 /\ (\E j \in 1..Len(GuardedSpan) : Disqualifies(GuardedSpan[j]))
                        => buffer[1][i] = Fin(0)
            ELSE buffer[1][i] = raw[i]

C18_VoiceKept == voice' = voice

\* C18: the guard called on the span [start, start + len) of a channel
\* zeroes that span when one of its samples is NaN, infinite or above 2.0 in
\* magnitude, leaves every frame of the channel outside the span as it was
\* (disqualifying samples outside the span too), and changes no field of the
\* voice.
C18_GuardZeroesItsSpanOnly == []C18_SpanOnly /\ [][C18_VoiceKept]_vars

\* the span [1, 2) holds a NaN; the frames before and after keep 0.5 and 2.0+
C18_Witness ==
    /\ pc = "spanned"
    /\ raw = <<Fin(SampleOne \div 2), NaN, Fin(SampleTwo + 1)>>
    /\ spans[1].offset = 1
    /\ spans[1].count = 1
    /\ buffer[1] = <<Fin(SampleOne \div 2), Fin(0), Fin(SampleTwo + 1)>>


----------------------------------------------------------------------------
(* Properties of a second pass of the guard *)

InUnitRange(x) == IsFin(x) /\ x.v >= -SampleOne /\ x.v <= SampleOne

C20_AfterOnePass ==
    pc \in {"guarded", "guarded again"} =>
        \/ IsZeroSpan(buffer[1])
        \/ \A i \in 1..Len(buffer[1]) : InUnitRange(buffer[1][i])

C20_SecondPass ==
    (pc = "guarded" /\ pc' = "guarded again") => buffer' = buffer

\* C20: the guard is idempotent: the span it leaves is all zeros or has
\* every sample in [-1.0, 1.0], and a second call on that span changes no
\* sample of it.
C20_GuardIdempotent == []C20_AfterOnePass /\ [][C20_SecondPass]_vars

\* two samples above 1.0 in magnitude and one below: clamped by the first
\* pass, the same after the second
C20_Witness ==
    /\ pc = "guarded again"
    /\ raw = <<Fin(SampleOne + 1), Fin(-SampleTwo), Fin(SampleOne \div 2)>>
    /\ buffer[1] = <<Fin(SampleOne), Fin(-SampleOne), Fin(SampleOne \div 2)>>


----------------------------------------------------------------------------
(* Properties of the attack and the release *)

\* ceil(0.01 * sampleRate) + 1, for a positive rate
FramesBound(sr) ==
    IF IsFin(sr) THEN (sr.v + TimeDen - 1) \div TimeDen + 1 ELSE 2

\* the level after n frames of the slope, before the clamp
Ramp(level, slope, n) == FAdd(level, FMul(Fin(n), slope))

\* the levels before and after each of n more frames, rendered with no event
\* in between
RECURSIVE EnvLevels(_, _)
EnvLevels(s, n) ==
    IF n = 0 THEN <<s.env>>
    ELSE <<s.env>> \o EnvLevels(RenderSample(s).s, n - 1)

\* the note-off of the held note is released; no note-on since
Releasing ==
    /\ prepared
    /\ activeNote = 0
    /\ FGt(sampleRate, Fin(0))
    /\ envSlope = ReleaseSlope(sampleRate)

\* a note is held
Attacking ==
    /\ prepared
    /\ activeNote > 0
    /\ FGt(sampleRate, Fin(0))

NoteOnStep == HandleStep /\ IsNoteOn(Event)

\* the event handled is a note-off, or a note-on of velocity 0, of the held note
MatchingNoteOffStep ==
    /\ HandleStep
    /\ IsNoteOffEvent(Event) \/ (IsNoteOnStatus(Event) /\ Data2(Event) = 0)
    /\ Data1(Event) = activeNote

\* a step of the pass: a render, or an event handled
PassStep == pc \in {"split", "midi"}

SpanCount == spans'[Len(spans')].count

\* the levels go one way
Falls(q) == \A k \in 1..(Len(q) - 1) : q[k + 1].v <= q[k].v

C19_Release ==
    /\ (MatchingNoteOffStep /\ Attacking) =>
        /\ Releasing'
        /\ FLt(envSlope', Fin(0))
        /\ \A q \in {EnvLevels(Voice', FramesBound(sampleRate))} :
               Falls(q) /\ q[Len(q)] = Fin(0)
    /\ (PassStep /\ Releasing /\ ~NoteOnStep) =>
        /\ Releasing'
        /\ env'.v <= env.v
        /\ env'.v >= 0
        /\ RenderStep =>
            \A level \in {Ramp(env, envSlope, SpanCount)} :
                env' = (IF FLe(level, Fin(0)) THEN Fin(0) ELSE level)
        /\ env = Fin(0) =>
            /\ voice' = voice
            /\ RenderStep =>
                /\ IsZeroSpan(raw')
                /\ \A ch \in 1..numChannels :
                    \A k \in 1..SpanCount : buffer'[ch][bufferOffset + k] = Fin(0)

C19_Attack ==
    /\ (NoteOnStep /\ prepared /\ FGt(sampleRate, Fin(0))) =>
        /\ Attacking'
        /\ FGt(envSlope', Fin(0))
        /\ IsFin(env') /\ env'.v >= 0
        /\ FGe(Ramp(env', envSlope', FramesBound(sampleRate)), Fin(EnvOne))
    /\ (PassStep /\ Attacking /\ ~MatchingNoteOffStep) =>
        /\ Attacking'
        /\ FGt(envSlope', Fin(0))
        /\ env'.v >= env.v
        /\ env'.v <= EnvOne
        /\ RenderStep =>
            \A level \in {Ramp(env, envSlope, SpanCount)} :
                env' = (IF FGe(level, Fin(EnvOne)) THEN Fin(EnvOne) ELSE level)

\* C19: at a positive sample rate, once the note-off of the held note is
\* handled and until a note-on, no step raises the level, each rendered frame
\* lowers it by the release slope down to exactly 0, which takes at most
\* ceil(0.01 * sampleRate) + 1 frames from any level, and at level 0 every
\* frame is 0 and no field of the voice changes.  Once a note-on is handled
\* and until the note-off of the held note, no step lowers the level, each
\* frame raises it by the attack slope up to exactly 1, and that many frames
\* of the attack slope cover the way to 1 from the level at the note-on.
C19_EnvelopeRuns == [][C19_Release /\ C19_Attack]_vars

\* a block entered in the release at level 120/220: 20/220 after frame 1,
\* exactly 0 after frame 2, and the voice is silent
C19_Witness ==
    /\ pc = "clear"
    /\ sampleRate = Fin(220)
    /\ entry.activeNote = 0
    /\ entry.envSlope = Fin(-100)
    /\ entry.env = Fin(120)
    /\ midiMessages = <<>>
    /\ NumSamples = 2
    /\ env = Fin(0)
    /\ activeNote = 0
    /\ ~Sounding(Voice)

====
